---- MODULE Spec2Model ----
(***************************************************************************)
(* Retrieval decision and execution engine of the RAG platform:            *)
(*   - the query engine of lib/excel/sqlite.ts (executeSqlQuery and the    *)
(*     regular-expression clause slicing of executeSimpleSqlQuery),        *)
(*   - the validators of lib/excel/utils.ts,                               *)
(*   - the iterative agent of lib/excel/agent.ts.                          *)
(*                                                                         *)
(* A JavaScript string that the code inspects character by character       *)
(* (queries, identifiers, cell values) is a sequence of one-character      *)
(* strings, so that startsWith / includes / match are computed as the      *)
(* code computes them.  Messages that are only passed on are TLA+ strings. *)
(***************************************************************************)
EXTENDS Integers, Sequences, FiniteSets, TLC

(***************************************************************************)
(* Bounds of the model.                                                    *)
(***************************************************************************)
\* longest table held by a store
MaxRows == 2
\* largest caller-provided row ceiling tried (the `limit` parameter)
MaxCeiling == 2
\* longest plan list the planning oracle returns
MaxPlan == 2
\* the most hits a vector search returns
MaxHits == 3
\* longest plan list handed to decideDataSource alone
MaxSteps == 9
\* longest short sheet name tried at import
MaxName == 3
\* the most sheets of a workbook
MaxSheets == 2

(***************************************************************************)
(* Characters.                                                             *)
(***************************************************************************)
LowerLetters ==
  <<"a","b","c","d","e","f","g","h","i","j","k","l","m",
    "n","o","p","q","r","s","t","u","v","w","x","y","z">>
UpperLetters ==
  <<"A","B","C","D","E","F","G","H","I","J","K","L","M",
    "N","O","P","Q","R","S","T","U","V","W","X","Y","Z">>
Digits == <<"0","1","2","3","4","5","6","7","8","9">>

Range(f) == {f[k] : k \in DOMAIN f}

\* \s, restricted to the white space the modelled inputs contain
WS == {" ", "\t"}
\* \d
DigitChars == Range(Digits)
\* [a-z0-9_]
IdentChars == Range(LowerLetters) \cup DigitChars \cup {"_"}
\* [a-z0-9_"]
TableChars == IdentChars \cup {"\""}
\* ['"]
QuoteChars == {"'", "\""}

\* UTF-16 code unit order of the characters that occur, for < and > on strings
CodeOrder ==
  <<"\t", " ", "\"", "'", "*", ",", "-">> \o Digits \o <<";", "=">> \o UpperLetters
    \o <<"_">> \o LowerLetters \o <<"{", "}">>

Ord == [c \in Range(CodeOrder) |-> CHOOSE k \in 1..Len(CodeOrder) : CodeOrder[k] = c]

\* the lower-case form of each character
LowerOf ==
  [c \in Range(CodeOrder) |->
     IF \E j \in 1..26 : UpperLetters[j] = c
     THEN LowerLetters[CHOOSE j \in 1..26 : UpperLetters[j] = c]
     ELSE c]

SetMin(S) == CHOOSE x \in S : \A y \in S : x <= y

(***************************************************************************)
(* String primitives of the JavaScript runtime.                            *)
(***************************************************************************)
\* String.prototype.toLowerCase
toLowerCase(s) == [k \in 1..Len(s) |-> LowerOf[s[k]]]

\* String.prototype.trim
trim(s) ==
  LET keep == {k \in 1..Len(s) : s[k] \notin WS}
  IN  IF keep = {} THEN <<>>
      ELSE SubSeq(s, SetMin(keep), CHOOSE k \in keep : \A j \in keep : j <= k)

\* p occurs in s at position i
IsAt(p, s, i) ==
  /\ i >= 1
  /\ i + Len(p) - 1 <= Len(s)
  /\ \A k \in 1..Len(p) : s[i + k - 1] = p[k]

\* String.prototype.startsWith
startsWith(s, p) == IsAt(p, s, 1)

\* String.prototype.includes
includes(s, p) == \E i \in 1..(Len(s) - Len(p) + 1) : IsAt(p, s, i)

RECURSIVE RunEnd(_, _, _)
\* first position at or after i whose character is outside C (Len(s)+1 if none):
\* the end of a greedy run C* starting at i
RunEnd(s, i, C) ==
  IF i > Len(s) \/ s[i] \notin C THEN i ELSE RunEnd(s, i + 1, C)

\* a < b on strings: lexicographic by code unit
StrLess(a, b) ==
  \E k \in 1..Len(b) :
     /\ \A j \in 1..(k - 1) : j <= Len(a) /\ a[j] = b[j]
     /\ \/ k = Len(a) + 1
        \/ k <= Len(a) /\ Ord[a[k]] < Ord[b[k]]

RECURSIVE parseIntFrom(_, _)
\* parseInt of a run of decimal digits, acc the value read so far
parseIntFrom(ds, acc) ==
  IF ds = <<>> THEN acc
  ELSE parseIntFrom(Tail(ds),
                    acc * 10 + ((CHOOSE k \in 1..10 : Digits[k] = Head(ds)) - 1))

parseInt(ds) == parseIntFrom(ds, 0)

(***************************************************************************)
(* Words of the query language.                                            *)
(***************************************************************************)
W_select_ == <<"s","e","l","e","c","t"," ">>
W_from    == <<"f","r","o","m">>
W_where   == <<"w","h","e","r","e">>
W_order   == <<"o","r","d","e","r">>
W_group   == <<"g","r","o","u","p">>
W_by      == <<"b","y">>
W_limit   == <<"l","i","m","i","t">>
W_and     == <<"a","n","d">>
W_asc     == <<"a","s","c">>
W_desc    == <<"d","e","s","c">>
W_update  == <<"u","p","d","a","t","e">>
W_delete  == <<"d","e","l","e","t","e">>
W_insert  == <<"i","n","s","e","r","t">>
W_drop    == <<"d","r","o","p">>
W_create  == <<"c","r","e","a","t","e">>
W_alter   == <<"a","l","t","e","r">>

\* /(update|delete|insert|drop|create|alter)/
ForbiddenWords == {W_update, W_delete, W_insert, W_drop, W_create, W_alter}

(***************************************************************************)
(* validators.isValidSqlQuery (lib/excel/utils.ts).                        *)
(***************************************************************************)
\* the validator with the checks for ';' and for the keywords left out
isValidSqlQuery_selectOnly(query) ==
  startsWith(toLowerCase(trim(query)), W_select_)

isValidSqlQuery(query) ==
  LET trimmed == toLowerCase(trim(query))
  IN  /\ startsWith(trimmed, W_select_)
      /\ ~includes(trimmed, <<";">>)
      /\ ~\E w \in ForbiddenWords : includes(trimmed, w)

(***************************************************************************)
(* The regular expressions of executeSimpleSqlQuery.  A match is           *)
(* [ok, g1, ...]: ok says whether the expression matched, g1.. are its     *)
(* capture groups (<<>> when it did not).  Each is the leftmost match, the *)
(* quantifiers greedy or lazy as written.                                  *)
(***************************************************************************)
NoMatch == [ok |-> FALSE, g1 |-> <<>>, g2 |-> <<>>]

\* /from\s+([a-z0-9_"]+)/
MatchFrom(s) ==
  LET at(i) == /\ IsAt(W_from, s, i)
               /\ RunEnd(s, i + 4, WS) > i + 4
               /\ RunEnd(s, RunEnd(s, i + 4, WS), TableChars) > RunEnd(s, i + 4, WS)
      starts == {i \in 1..Len(s) : at(i)}
  IN  IF starts = {} THEN NoMatch
      ELSE LET i == SetMin(starts)
               j == RunEnd(s, i + 4, WS)
           IN  [ok |-> TRUE, g1 |-> SubSeq(s, j, RunEnd(s, j, TableChars) - 1),
                g2 |-> <<>>]

\* \s+<word> matches at position k
WsWordAt(s, k, w) ==
  /\ RunEnd(s, k, WS) > k
  /\ IsAt(w, s, RunEnd(s, k, WS))

\* \s+<w1>\s+<w2> matches at position k
WsTwoWordsAt(s, k, w1, w2) ==
  /\ WsWordAt(s, k, w1)
  /\ WsWordAt(s, RunEnd(s, k, WS) + Len(w1), w2)

\* (.+?) starting at j, ended by the first position after j where the
\* terminator matches; StopAt(k) is the terminator, $ included
LazyUntil(s, j, StopAt(_)) ==
  SubSeq(s, j, SetMin({k \in (j + 1)..(Len(s) + 1) : StopAt(k)}) - 1)

\* /where\s+(.+?)(?:\s+order\s+by|\s+group\s+by|\s+limit|$)/i
MatchWhere(s) ==
  LET at(i) == /\ IsAt(W_where, s, i)
               /\ RunEnd(s, i + 5, WS) > i + 5
               /\ RunEnd(s, i + 5, WS) <= Len(s)
      starts == {i \in 1..Len(s) : at(i)}
      stop(k) == \/ WsTwoWordsAt(s, k, W_order, W_by)
                 \/ WsTwoWordsAt(s, k, W_group, W_by)
                 \/ WsWordAt(s, k, W_limit)
                 \/ k = Len(s) + 1
  IN  IF starts = {} THEN NoMatch
      ELSE [ok |-> TRUE,
            g1 |-> LazyUntil(s, RunEnd(s, SetMin(starts) + 5, WS), stop),
            g2 |-> <<>>]

\* /order\s+by\s+(.+?)(?:\s+limit|$)/i
MatchOrderBy(s) ==
  LET afterBy(i) == RunEnd(s, i + 5, WS) + 2
      at(i) == /\ IsAt(W_order, s, i)
               /\ WsWordAt(s, i + 5, W_by)
               /\ RunEnd(s, afterBy(i), WS) > afterBy(i)
               /\ RunEnd(s, afterBy(i), WS) <= Len(s)
      starts == {i \in 1..Len(s) : at(i)}
      stop(k) == WsWordAt(s, k, W_limit) \/ k = Len(s) + 1
  IN  IF starts = {} THEN NoMatch
      ELSE [ok |-> TRUE,
            g1 |-> LazyUntil(s, RunEnd(s, afterBy(SetMin(starts)), WS), stop),
            g2 |-> <<>>]

\* /limit\s+(\d+)/i
MatchLimit(s) ==
  LET at(i) == /\ IsAt(W_limit, s, i)
               /\ RunEnd(s, i + 5, WS) > i + 5
               /\ RunEnd(s, RunEnd(s, i + 5, WS), DigitChars) > RunEnd(s, i + 5, WS)
      starts == {i \in 1..Len(s) : at(i)}
  IN  IF starts = {} THEN NoMatch
      ELSE LET j == RunEnd(s, SetMin(starts) + 5, WS)
           IN  [ok |-> TRUE, g1 |-> SubSeq(s, j, RunEnd(s, j, DigitChars) - 1),
                g2 |-> <<>>]

\* /\s+and\s+/i at k: the position after the separator, 0 if none
AndSepAt(s, k) ==
  IF WsWordAt(s, k, W_and)
       /\ RunEnd(s, RunEnd(s, k, WS) + 3, WS) > RunEnd(s, k, WS) + 3
  THEN RunEnd(s, RunEnd(s, k, WS) + 3, WS)
  ELSE 0

\* /\s*,\s*/ at k: the position after the separator, 0 if none
CommaSepAt(s, k) ==
  IF RunEnd(s, k, WS) <= Len(s) /\ s[RunEnd(s, k, WS)] = ","
  THEN RunEnd(s, RunEnd(s, k, WS) + 1, WS)
  ELSE 0

RECURSIVE splitAnd(_)
\* String.prototype.split(/\s+and\s+/i)
splitAnd(s) ==
  LET hits == {k \in 1..Len(s) : AndSepAt(s, k) > 0}
  IN  IF hits = {} THEN <<s>>
      ELSE <<SubSeq(s, 1, SetMin(hits) - 1)>>
             \o splitAnd(SubSeq(s, AndSepAt(s, SetMin(hits)), Len(s)))

RECURSIVE splitComma(_)
\* String.prototype.split(/\s*,\s*/)
splitComma(s) ==
  LET hits == {k \in 1..Len(s) : CommaSepAt(s, k) > 0}
  IN  IF hits = {} THEN <<s>>
      ELSE <<SubSeq(s, 1, SetMin(hits) - 1)>>
             \o splitComma(SubSeq(s, CommaSepAt(s, SetMin(hits)), Len(s)))

\* /([a-z0-9_]+)\s*=\s*['"]?([^'"]+)['"]?/i on a lower-cased condition:
\* g1 the column, g2 the value
MatchCondition(c) ==
  LET eqAfter(p) == RunEnd(c, RunEnd(c, p, IdentChars), WS)
      \* where the value starts when the match begins at p, 0 if it cannot
      valueStart(p) ==
        LET e == eqAfter(p) + 1
            q == RunEnd(c, e, WS)
        IN  IF q <= Len(c) /\ c[q] \notin QuoteChars THEN q
            ELSE IF q + 1 <= Len(c) /\ c[q] \in QuoteChars
                      /\ c[q + 1] \notin QuoteChars THEN q + 1
            ELSE IF q > e THEN q - 1
            ELSE 0
      at(p) == /\ c[p] \in IdentChars
               /\ eqAfter(p) <= Len(c)
               /\ c[eqAfter(p)] = "="
               /\ valueStart(p) > 0
      starts == {p \in 1..Len(c) : at(p)}
  IN  IF starts = {} THEN NoMatch
      ELSE LET p == SetMin(starts)
               v == valueStart(p)
           IN  [ok |-> TRUE,
                g1 |-> SubSeq(c, p, RunEnd(c, p, IdentChars) - 1),
                g2 |-> SubSeq(c, v, RunEnd(c, v, {ch \in Range(CodeOrder) : ch \notin QuoteChars}) - 1)]

\* /([a-z0-9_]+)\s+(asc|desc)?/i on a lower-cased ORDER BY part:
\* g1 the column, g2 the direction (<<>> when the group did not take part)
MatchOrderPart(part) ==
  LET at(p) == /\ part[p] \in IdentChars
               /\ RunEnd(part, RunEnd(part, p, IdentChars), WS)
                    > RunEnd(part, p, IdentChars)
      starts == {p \in 1..Len(part) : at(p)}
  IN  IF starts = {} THEN NoMatch
      ELSE LET p == SetMin(starts)
               d == RunEnd(part, RunEnd(part, p, IdentChars), WS)
           IN  [ok |-> TRUE,
                g1 |-> SubSeq(part, p, RunEnd(part, p, IdentChars) - 1),
                g2 |-> IF IsAt(W_asc, part, d) THEN W_asc
                       ELSE IF IsAt(W_desc, part, d) THEN W_desc
                       ELSE <<>>]

(***************************************************************************)
(* Rows.  A row is a function from its keys (the column names of the       *)
(* sheet) to cell texts; row[column] is undefined for any other column.    *)
(***************************************************************************)
HasCell(row, column) == column \in DOMAIN row

\* row[column]?.toString().toLowerCase() || ''
CellOrEmpty(row, column) ==
  IF HasCell(row, column) THEN toLowerCase(row[column]) ELSE <<>>

(***************************************************************************)
(* applyWhereClause (lib/excel/sqlite.ts).                                 *)
(***************************************************************************)
\* the test of one condition on one row
conditionHolds(row, condition) ==
  LET match == MatchCondition(condition)
  IN  IF match.ok
      THEN HasCell(row, match.g1)
             /\ toLowerCase(row[match.g1]) = toLowerCase(match.g2)
      ELSE TRUE

applyWhereClause(data, whereClause) ==
  LET conditions == splitAnd(whereClause)
      keep(row) == \A k \in 1..Len(conditions) : conditionHolds(row, conditions[k])
  IN  SelectSeq(data, keep)

(***************************************************************************)
(* applyOrderByClause (lib/excel/sqlite.ts).                               *)
(***************************************************************************)
\* parts.map(...).filter(Boolean): the sort keys, [column, direction]
sortConfigsOf(orderClause) ==
  LET parts == splitComma(orderClause)
      matched == SelectSeq([k \in 1..Len(parts) |-> MatchOrderPart(parts[k])],
                           LAMBDA m : m.ok)
  IN  [k \in 1..Len(matched) |->
         [column |-> matched[k].g1,
          direction |-> IF matched[k].g2 = <<>> THEN W_asc ELSE matched[k].g2]]

RECURSIVE compareRows(_, _, _)
\* the comparator handed to sort: -1, 0 or 1
compareRows(a, b, sortConfigs) ==
  IF sortConfigs = <<>> THEN 0
  ELSE LET config == Head(sortConfigs)
           aVal == CellOrEmpty(a, config.column)
           bVal == CellOrEmpty(b, config.column)
       IN  IF StrLess(aVal, bVal)
           THEN (IF config.direction = W_desc THEN 1 ELSE -1)
           ELSE IF StrLess(bVal, aVal)
           THEN (IF config.direction = W_desc THEN -1 ELSE 1)
           ELSE compareRows(a, b, Tail(sortConfigs))

\* r put before the first element that compares greater than or equal to it
insertSorted_unstable(sorted, r, sortConfigs) ==
  LET notLess == {k \in 1..Len(sorted) : compareRows(sorted[k], r, sortConfigs) >= 0}
      at == IF notLess = {} THEN Len(sorted) + 1 ELSE SetMin(notLess)
  IN  SubSeq(sorted, 1, at - 1) \o <<r>> \o SubSeq(sorted, at, Len(sorted))

\* r put into the sorted sequence before the first element that compares
\* greater than it
insertSorted(sorted, r, sortConfigs) ==
  LET greater == {k \in 1..Len(sorted) : compareRows(sorted[k], r, sortConfigs) > 0}
      at == IF greater = {} THEN Len(sorted) + 1 ELSE SetMin(greater)
  IN  SubSeq(sorted, 1, at - 1) \o <<r>> \o SubSeq(sorted, at, Len(sorted))

RECURSIVE sortRows(_, _)
\* Array.prototype.sort with the comparator: a stable sort (ECMAScript 2019)
sortRows(data, sortConfigs) ==
  IF Len(data) <= 1 THEN data
  ELSE insertSorted(sortRows(SubSeq(data, 1, Len(data) - 1), sortConfigs),
                    data[Len(data)], sortConfigs)

applyOrderByClause(data, orderClause) ==
  sortRows(data, sortConfigsOf(orderClause))

(***************************************************************************)
(* executeSimpleSqlQuery and executeSqlQuery (lib/excel/sqlite.ts).        *)
(* A result is [success, data, error, fsAccess]: data is <<>> and error is *)
(* the message when success is FALSE; fsAccess records whether the call    *)
(* reached the file system (fs.existsSync / fs.readFileSync of the store). *)
(***************************************************************************)
Failure(message, touched) ==
  [success |-> FALSE, data |-> <<>>, error |-> message, fsAccess |-> touched]

Success(rows, touched) ==
  [success |-> TRUE, data |-> rows, error |-> "", fsAccess |-> touched]

\* fromMatch[1].replace(/"/g, '')
stripQuotes(name) == SelectSeq(name, LAMBDA ch : ch # "\"")

\* the whitelist check left out
tableAllowed_any(tableName, allowedTables) == TRUE

\* allowedTables.includes(tableName)
tableAllowed(tableName, allowedTables) == tableName \in allowedTables

\* const actualLimit = limitMatch ? parseInt(limitMatch[1]) : limit
actualLimitOf(lowerQuery, limit) ==
  LET limitMatch == MatchLimit(lowerQuery)
  IN  IF limitMatch.ok THEN parseInt(limitMatch.g1) ELSE limit

\* Array.prototype.slice(0, n)
sliceTo(rows, n) == SubSeq(rows, 1, IF n < Len(rows) THEN n ELSE Len(rows))

executeSimpleSqlQuery(query, data, allowedTables, limit) ==
  LET lowerQuery == trim(toLowerCase(query))
      fromMatch  == MatchFrom(lowerQuery)
      tableName  == stripQuotes(fromMatch.g1)
      whereMatch == MatchWhere(lowerQuery)
      orderMatch == MatchOrderBy(lowerQuery)
      all        == data[tableName]
      filtered   == IF whereMatch.ok THEN applyWhereClause(all, whereMatch.g1) ELSE all
      ordered    == IF orderMatch.ok THEN applyOrderByClause(filtered, orderMatch.g1)
                    ELSE filtered
  IN  IF ~startsWith(lowerQuery, W_select_)
        THEN Failure("Only SELECT queries are supported", TRUE)
      ELSE IF ~fromMatch.ok
        THEN Failure("No FROM clause found", TRUE)
      ELSE IF ~tableAllowed(tableName, allowedTables)
        THEN Failure("Table not allowed", TRUE)
      ELSE IF tableName \notin DOMAIN data
        THEN Failure("Table not found", TRUE)
      ELSE Success(sliceTo(ordered, actualLimitOf(lowerQuery, limit)), TRUE)

\* executeSqlQuery without its catch block: the error of JSON.parse rejects
\* the promise
executeSqlQuery_uncaught(dbFile, query, allowedTables, limit) ==
  IF ~isValidSqlQuery(query)
    THEN Failure("Invalid SQL query", FALSE)
  ELSE IF dbFile.kind = "missing"
    THEN Failure("Database file not found", TRUE)
  ELSE IF dbFile.kind = "corrupt"
    THEN [rejected |-> TRUE, reason |-> "Unexpected token in JSON"]
  ELSE executeSimpleSqlQuery(query, dbFile.data, allowedTables, limit)

\* executeSqlQuery with the call of the validator left out
executeSqlQuery_unvalidated(dbFile, query, allowedTables, limit) ==
  IF dbFile.kind = "missing"
    THEN Failure("Database file not found", TRUE)
  ELSE IF dbFile.kind = "corrupt"
    THEN Failure("Unexpected token in JSON", TRUE)
  ELSE executeSimpleSqlQuery(query, dbFile.data, allowedTables, limit)

\* dbFile is the file at dbPath: [kind, data] with kind "missing" (no such
\* file), "corrupt" (JSON.parse throws) or "json" (data: table name -> rows)
executeSqlQuery(dbFile, query, allowedTables, limit) ==
  IF ~isValidSqlQuery(query)
    THEN Failure("Invalid SQL query", FALSE)
  ELSE IF dbFile.kind = "missing"
    THEN Failure("Database file not found", TRUE)
  ELSE IF dbFile.kind = "corrupt"
    THEN Failure("Unexpected token in JSON", TRUE)
  ELSE executeSimpleSqlQuery(query, dbFile.data, allowedTables, limit)

(***************************************************************************)
(* Inputs of the query engine: tables, stores and queries.                 *)
(***************************************************************************)
T_t             == <<"t">>
T_u             == <<"u">>
T_v             == <<"v">>
C_a             == <<"a">>
C_b             == <<"b">>
C_id            == <<"i","d">>
V_x             == <<"x">>
V_y             == <<"y">>
V_Y             == <<"Y">>
Q_select        == <<"s","e","l","e","c","t"," ","*">>
Q_SELECT        == <<" "," ","S","E","L","E","C","T"," ","*">>
Q_selects       == <<"s","e","l","e","c","t","s"," ","*">>
Q_delete        == <<"d","e","l","e","t","e">>
Q_from_t        == <<" ","f","r","o","m"," ","t">>
Q_FROM_t        == <<" ","F","R","O","M"," ","\"","t","\"">>
Q_from_v        == <<" ","f","r","o","m"," ","v">>
Q_where_a       == <<" ","w","h","e","r","e"," ","a"," ","="," ","'","x","'">>
Q_where_ab      == <<" ","w","h","e","r","e"," ","a"," ","="," ","'","X","'"," ","a","n","d"," ","b"," ","="," ","y">>
Q_where_like    == <<" ","w","h","e","r","e"," ","a"," ","l","i","k","e"," ","'","x","'">>
Q_order_a       == <<" ","o","r","d","e","r"," ","b","y"," ","a">>
Q_order_a_desc  == <<" ","o","r","d","e","r"," ","b","y"," ","a"," ","d","e","s","c">>
Q_order_b_a     == <<" ","o","r","d","e","r"," ","b","y"," ","b"," ","a","s","c",","," ","a"," ","d","e","s","c">>
Q_limit_1       == <<" ","l","i","m","i","t"," ","1">>
Q_limit_9999    == <<" ","l","i","m","i","t"," ","9","9","9","9">>
Q_semicolon     == <<";">>
Q_union_delete  == <<" ","u","n","i","o","n"," ","d","e","l","e","t","e">>
Q_where_x_and_y == <<" ","w","h","e","r","e"," ","a"," ","="," ","'","x"," ","a","n","d"," ","y","'">>
Q_select_created == <<"s","e","l","e","c","t"," ","c","r","e","a","t","e","d","_","a","t">>

\* the row of a sheet with header a, b, id: id is the row's number in the sheet
SheetRow(a, b, n) == (C_a :> a) @@ (C_b :> b) @@ (C_id :> <<Digits[n + 1]>>)

\* the sheets of 1..MaxRows rows (a sheet without rows is never imported)
SheetsOfLength(n) ==
  {[k \in 1..n |-> SheetRow(ab[k][1], ab[k][2], k)] :
     ab \in [1..n -> {V_x, V_y} \X {V_x, V_Y}]}

Sheets == UNION {SheetsOfLength(n) : n \in 1..MaxRows}

\* the JSON files importExcelToSQLite writes for a workbook with sheets t, u
JsonFiles ==
  {[kind |-> "json",
    data |-> (T_t :> rows) @@ (T_u :> <<SheetRow(V_y, V_x, 1)>>)] : rows \in Sheets}

NoData == (T_t :> <<>>)
MissingFile == [kind |-> "missing", data |-> NoData]
CorruptFile == [kind |-> "corrupt", data |-> NoData]

\* allowedTables as executeSqlWithResults builds it: the tables of the record
ListedTables == {T_t, T_u}

\* other whitelists a caller may pass; table v is listed but held by no store
AllowedTableSets == {ListedTables, {T_u, T_v}}

\* the caller's row ceilings; config.DEFAULT_SQL_LIMIT is 100
Ceilings == 1..MaxCeiling

Cat3(a, b, c) == a \o b \o c

\* well-formed queries on table t: every combination of the optional clauses
ClauseQueries ==
  {Q_select \o Q_from_t \o Cat3(w, o, l) :
     w \in {<<>>, Q_where_a, Q_where_ab, Q_where_like, Q_where_x_and_y},
     o \in {<<>>, Q_order_a, Q_order_a_desc, Q_order_b_a},
     l \in {<<>>, Q_limit_1, Q_limit_9999}}

\* queries that meet or break the validation rules, alone and combined
RuleQueries ==
  {Cat3(h, f, e) :
     h \in {Q_select, Q_SELECT, Q_selects, Q_delete, Q_select_created},
     f \in {<<>>, Q_from_t, Q_FROM_t, Q_from_v},
     e \in {<<>>, Q_semicolon, Q_union_delete}}

\* the calls tried: <<query, allowedTables, limit>>
Calls ==
  (ClauseQueries \X {ListedTables} \X Ceilings)
    \cup (RuleQueries \X AllowedTableSets \X {MaxCeiling})

(***************************************************************************)
(* The agent (lib/excel/agent.ts).  Texts that the agent only passes on    *)
(* are sequences of pieces; '' is <<>> and join('\n\n') puts the piece     *)
(* "\n\n" between two texts.  Confidences are in hundredths.               *)
(***************************************************************************)
RECURSIVE joinBlank(_)
\* texts.join('\n\n')
joinBlank(texts) ==
  IF texts = <<>> THEN <<>>
  ELSE IF Len(texts) = 1 THEN texts[1]
  ELSE texts[1] \o <<"\n\n">> \o joinBlank(Tail(texts))

RECURSIVE sumOf(_)
\* reduce((sum, x) => sum + x, 0)
sumOf(numbers) ==
  IF numbers = <<>> THEN 0 ELSE Head(numbers) + sumOf(Tail(numbers))

(***************************************************************************)
(* What the language model may answer at the planning call site.  A        *)
(* response is [kind, obj]: the call rejects ("throw"), resolves with an   *)
(* empty text ("empty"), with a text that holds no parseable object        *)
(* ("nojson"), or with a text whose {...} parses to obj ("object").        *)
(*                                                                         *)
(* A parsed plan object has the properties the code reads: plan (a list of *)
(* steps), maxIterations, and, because executeIterativeAgent reads them    *)
(* from the object itself, length and the indexed entries 0, 1, ...        *)
(* (indexed: the object repeats its steps under those keys).               *)
(***************************************************************************)
\* The text of a response, as far as the decoder of the three call sites
\* tells its parts apart: a well-formed object ("object"), text without
\* braces ("prose"), a lone "{" or "}".  The kinds "objectThenProse" and
\* "objectThenObject" are texts in which more text follows the object obj.
textOf(kind) ==
  CASE kind = "object"           -> <<"object">>
    [] kind = "objectThenProse"  -> <<"object", "prose">>
    [] kind = "objectThenObject" -> <<"object", "prose", "object">>
    [] kind = "nojson"           -> <<"prose">>
    [] OTHER                     -> <<>>

\* text.match(/\{[\s\S]*\}/): from the first "{" of the text to its last
\* "}", <<>> when there is no match
jsonMatch(text) ==
  LET opens  == {k \in 1..Len(text) : text[k] \in {"object", "{"}}
      closes == {k \in 1..Len(text) : text[k] \in {"object", "}"}}
  IN  IF opens = {} \/ closes = {} THEN <<>>
      ELSE LET from == SetMin(opens)
               to == CHOOSE k \in closes : \A j \in closes : j <= k
           IN  IF from <= to THEN SubSeq(text, from, to) ELSE <<>>

\* JSON.parse(jsonMatch[0]) returns the object: the matched text is one
\* well-formed object and nothing else
decodes(text) == jsonMatch(text) = <<"object">>

\* the kinds of text in which the object is followed by more text
TrailedKinds == {"objectThenProse", "objectThenObject"}

PlanStep(approach, reasoning) == [approach |-> approach, reasoning |-> reasoning]

\* reasoning is a text, missing, or a number (a truthy non-string)
FirstSteps == {PlanStep(a, r) : a \in {"sql", "vector"}, r \in {"text", "absent", "number"}}
LaterSteps == {PlanStep(a, "text") : a \in {"sql", "vector"}}

PlanLists ==
  {<<>>} \cup {<<f>> \o rest : f \in FirstSteps,
                 rest \in UNION {[1..n -> LaterSteps] : n \in 0..(MaxPlan - 1)}}

PlanObject(hasPlan, plan, hasMax, max, hasLength, length, indexed) ==
  [hasPlan |-> hasPlan, plan |-> plan,
   hasMaxIterations |-> hasMax, maxIterations |-> max,
   hasLength |-> hasLength, length |-> length, indexed |-> indexed]

\* the values of maxIterations: missing (3 is taken), 0 (falsy: 3 is taken),
\* 1 and MaxPlan
MaxIterationsValues == {<<FALSE, 0>>} \cup {<<TRUE, n>> : n \in {0, 1, MaxPlan}}

\* objects shaped as the prompt asks: {plan: [...], maxIterations: n}
PromptedPlanObjects ==
  {PlanObject(TRUE, pl, m[1], m[2], FALSE, 0, FALSE) :
     pl \in PlanLists, m \in MaxIterationsValues}
    \cup {PlanObject(FALSE, <<>>, m[1], m[2], FALSE, 0, FALSE) : m \in MaxIterationsValues}

\* objects that also carry a length, with or without the indexed entries
\* (the entries of the list, its approaches alternating)
ArrayLikePlanObjects ==
  {PlanObject(TRUE, pl, m[1], m[2], TRUE, n, ix) :
     pl \in {l \in PlanLists : /\ Len(l) >= 2
                               /\ l[1].reasoning = "text"
                               /\ \A k \in 1..(Len(l) - 1) :
                                    l[k].approach # l[k + 1].approach},
     m \in MaxIterationsValues, n \in 0..MaxPlan, ix \in BOOLEAN}

PlanObjects == PromptedPlanObjects \cup ArrayLikePlanObjects

NoObject == PlanObject(FALSE, <<>>, FALSE, 0, FALSE, 0, FALSE)

\* the plan of the texts in which more text follows the object
TrailedPlan ==
  PlanObject(TRUE, <<PlanStep("vector", "text")>>, TRUE, 1, FALSE, 0, FALSE)

\* "never": the call neither resolves nor rejects
PlanResponses ==
  {[kind |-> k, obj |-> NoObject] : k \in {"throw", "empty", "nojson", "never"}}
    \cup {[kind |-> "object", obj |-> o] : o \in PlanObjects}
    \cup {[kind |-> k, obj |-> TrailedPlan] : k \in TrailedKinds}

(***************************************************************************)
(* decideDataSource.                                                       *)
(***************************************************************************)
NoMetadata == [hasPlan |-> FALSE, plan |-> NoObject,
               hasMaxIterations |-> FALSE, maxIterations |-> 0]

DataSource(type, confidence, reasoning, metadata) ==
  [type |-> type, confidence |-> confidence, reasoning |-> reasoning,
   metadata |-> metadata]

\* analyzeAvailableSources: one excel-sql source for each ExcelSqlite record
\* of the project, and the vector search, which is always listed
analyzeAvailableSources(excelRecords) ==
  [k \in 1..excelRecords |-> "excel-sql"] \o <<"vector-search">>

\* the decision of the catch block
fallbackDecision ==
  [selectedSource |-> DataSource("vector-search", 50,
                                 "Fallback to vector search due to error", NoMetadata),
   alternativeSources |-> <<>>,
   context |-> "Fallback mode",
   mode |-> "vector"]

\* a fallback plan of the sql step alone
fallbackPlan_sqlOnly ==
  PlanObject(TRUE, <<PlanStep("sql", "text")>>, TRUE, 2, FALSE, 0, FALSE)

\* the plan substituted when the response cannot be parsed
fallbackPlan ==
  PlanObject(TRUE, <<PlanStep("sql", "text"), PlanStep("vector", "text")>>,
             TRUE, 2, FALSE, 0, FALSE)

\* p.approach === 'sql' ? 'excel-sql' : 'vector-search'
sourceTypeOf(approach) == IF approach = "sql" THEN "excel-sql" ELSE "vector-search"

\* 0.6 - (i * 0.1), i counted from 0
alternativeConfidence(i) == 60 - (i * 10)

\* "Create decision based on plan"
decisionFromPlan(plan) ==
  LET steps == plan.plan
      selectedSource ==
        DataSource(IF steps # <<>> THEN sourceTypeOf(steps[1].approach)
                   ELSE "vector-search",
                   80,
                   IF steps # <<>> /\ steps[1].reasoning # "absent"
                   THEN steps[1].reasoning ELSE "Default reasoning",
                   [hasPlan |-> TRUE, plan |-> plan,
                    hasMaxIterations |-> plan.hasMaxIterations,
                    maxIterations |-> plan.maxIterations])
      alternativeSources ==
        [k \in 1..(Len(steps) - 1) |->
           DataSource(sourceTypeOf(steps[k + 1].approach),
                      alternativeConfidence(k - 1),
                      IF steps[k + 1].reasoning # "absent"
                      THEN steps[k + 1].reasoning ELSE "Alternative approach",
                      NoMetadata)]
  IN  [selectedSource |-> selectedSource,
       alternativeSources |-> alternativeSources,
       context |-> "Iterative plan",
       mode |-> IF Len(steps) > 1 THEN "iterative"
                ELSE IF selectedSource.type = "excel-sql" THEN "sql" ELSE "vector"]

\* the plan object the response is decoded to
parsedPlan(response) ==
  IF decodes(textOf(response.kind)) THEN response.obj ELSE fallbackPlan

\* decideDataSource with the check of an empty text left out: the text is
\* handed to the parser, which substitutes the fallback plan
decideDataSource_emptyTextParsed(sourcesOk, response) ==
  IF ~sourcesOk THEN fallbackDecision
  ELSE IF response.kind = "throw" THEN fallbackDecision
  ELSE IF ~parsedPlan(response).hasPlan THEN fallbackDecision
  ELSE decisionFromPlan(parsedPlan(response))

\* sourcesOk: getExcelSqliteByProjectId resolved (analyzeAvailableSources)
decideDataSource(sourcesOk, response) ==
  IF ~sourcesOk THEN fallbackDecision
  ELSE IF response.kind \in {"throw", "empty"} THEN fallbackDecision
  ELSE IF ~parsedPlan(response).hasPlan THEN fallbackDecision
  ELSE decisionFromPlan(parsedPlan(response))

(***************************************************************************)
(* executeIteration.                                                       *)
(***************************************************************************)
\* a review as the code holds it: overallScore and shouldTryAlternative may
\* be missing; shouldTryAlternative is "true", "false" or "absent"
Review(hasScore, score, try) ==
  [hasScore |-> hasScore, overallScore |-> score, shouldTryAlternative |-> try]

\* a fallback review that asks for the alternative
fallbackReview_tryAlternative == Review(TRUE, 70, "true")

\* { overallScore: 0.7, shouldTryAlternative: false }
fallbackReview == Review(TRUE, 70, "false")

NoReview == Review(FALSE, 0, "absent")

\* what the review oracle may answer
ReviewObjects ==
  {Review(TRUE, 30, "true"), Review(TRUE, 30, "false"), Review(TRUE, 0, "true"),
   Review(TRUE, 150, "false"), Review(FALSE, 0, "absent")}

\* the review of the texts in which more text follows the object
TrailedReview == Review(TRUE, 30, "true")

ReviewResponses ==
  {[kind |-> k, obj |-> NoReview] : k \in {"throw", "nojson", "never"}}
    \cup {[kind |-> "object", obj |-> o] : o \in ReviewObjects}
    \cup {[kind |-> k, obj |-> TrailedReview] : k \in TrailedKinds}

\* what the retrieval of a step produces: it raises ("throw": the database
\* or the vector index is unreachable), or yields a text, possibly ''
RetrievalOutcomes == {"throw", "text", "empty"}

\* with no ExcelSqlite record the loop over the records of a sql step has
\* nothing to run: the lookup raises or the result stays ''
RetrievalsFor(approach, excelRecords) ==
  IF approach = "sql" /\ excelRecords = 0 THEN {"throw", "empty"}
  ELSE RetrievalOutcomes

\* the retrieved text of a step
retrievedText(approach, retrieval) ==
  IF retrieval = "text"
  THEN (IF approach = "sql" THEN <<"sql rows">> ELSE <<"chunks">>)
  ELSE <<>>

IterationResult(approach, result, confidence, reasoning, hasReview, review, error) ==
  [approach |-> approach, result |-> result, confidence |-> confidence,
   reasoning |-> reasoning,
   metadata |-> [hasReview |-> hasReview, review |-> review, error |-> error]]

\* the result of the catch block
failedIteration(approach, message) ==
  IterationResult(approach, <<"Error occurred during execution">>, 10,
                  "Execution failed", FALSE, NoReview, message)

\* review.overallScore || 0.7
confidenceOf(review) ==
  IF review.hasScore /\ review.overallScore # 0 THEN review.overallScore ELSE 70

\* the review decoded from the response
parsedReview(response) ==
  IF decodes(textOf(response.kind)) THEN response.obj ELSE fallbackReview

executeIteration(approach, retrieval, response) ==
  IF retrieval = "throw" THEN failedIteration(approach, "retrieval failed")
  ELSE IF response.kind = "throw" THEN failedIteration(approach, "review call failed")
  ELSE IterationResult(approach, retrievedText(approach, retrieval),
                       confidenceOf(parsedReview(response)),
                       "Standard execution", TRUE, parsedReview(response), "")

(***************************************************************************)
(* executeIterativeAgent.                                                  *)
(***************************************************************************)
\* decision.selectedSource.metadata?.maxIterations || 3
maxIterationsOf(decision) ==
  LET metadata == decision.selectedSource.metadata
  IN  IF metadata.hasMaxIterations /\ metadata.maxIterations # 0
      THEN metadata.maxIterations ELSE 3

\* decision.selectedSource.metadata?.plan || [sql, vector]: the parsed plan
\* object when the metadata holds one, else the two-step default list
planOf(decision) ==
  LET metadata == decision.selectedSource.metadata
  IN  IF metadata.hasPlan THEN metadata.plan
      ELSE PlanObject(TRUE, <<PlanStep("sql", "text"), PlanStep("vector", "text")>>,
                      FALSE, 0, TRUE, 2, TRUE)

\* i < Math.min(plan.length, maxIterations), i counted from 0; the
\* comparison with NaN (plan.length undefined) is false
loopContinues(decision, i) ==
  /\ planOf(decision).hasLength
  /\ i < planOf(decision).length
  /\ i < maxIterationsOf(decision)

\* plan[i] is defined
hasPlanItem(decision, i) ==
  planOf(decision).indexed /\ i < Len(planOf(decision).plan)

\* planItem.approach === 'sql' ? 'sql' : 'vector'
approachOf(decision, i) ==
  IF planOf(decision).plan[i + 1].approach = "sql" THEN "sql" ELSE "vector"

\* the loop stopped also by an iteration that has no review
stopsLoop_onFailure(iterationResult) ==
  \/ ~iterationResult.metadata.hasReview
  \/ iterationResult.metadata.review.shouldTryAlternative = "false"

\* the loop stopped only when the review also scores 0.7 or more
stopsLoop_onGoodScore(iterationResult) ==
  /\ iterationResult.metadata.hasReview
  /\ iterationResult.metadata.review.shouldTryAlternative = "false"
  /\ iterationResult.metadata.review.hasScore
  /\ iterationResult.metadata.review.overallScore >= 70

\* iterationResult.metadata?.review?.shouldTryAlternative === false
stopsLoop(iterationResult) ==
  /\ iterationResult.metadata.hasReview
  /\ iterationResult.metadata.review.shouldTryAlternative = "false"

\* what the synthesis oracle may answer: the object may lack finalAnswer
SynthesisResponses ==
  {[kind |-> k, hasFinalAnswer |-> FALSE] : k \in {"throw", "nojson", "never"}}
    \cup {[kind |-> "object", hasFinalAnswer |-> b] : b \in BOOLEAN}
    \cup {[kind |-> k, hasFinalAnswer |-> TRUE] : k \in TrailedKinds}

\* a text that may be undefined
Defined(text) == [defined |-> TRUE, text |-> text]
Undefined == [defined |-> FALSE, text |-> <<>>]

\* a fallback synthesis of the last iteration alone
fallbackSynthesis_lastOnly(iterations) ==
  [finalAnswer |-> Defined(IF iterations = <<>> THEN <<>>
                           ELSE iterations[Len(iterations)].result),
   confidence |-> [sum |-> IF iterations = <<>> THEN 0
                           ELSE iterations[Len(iterations)].confidence,
                   count |-> IF iterations = <<>> THEN 0 ELSE 1],
   reasoning |-> "Combined all results"]

\* the synthesis of the fallback: results joined, confidences averaged
\* (confidence is sum / count, NaN when count is 0)
fallbackSynthesis(iterations) ==
  [finalAnswer |-> Defined(joinBlank([k \in 1..Len(iterations) |-> iterations[k].result])),
   confidence |-> [sum |-> sumOf([k \in 1..Len(iterations) |-> iterations[k].confidence]),
                   count |-> Len(iterations)],
   reasoning |-> "Combined all results"]

\* the synthesis decoded from the response (the call resolved)
synthesisOf(response, iterations) ==
  IF decodes(textOf(response.kind))
  THEN [finalAnswer |-> IF response.hasFinalAnswer
                        THEN Defined(<<"synthesized answer">>) ELSE Undefined,
        confidence |-> [sum |-> 92, count |-> 1],
        reasoning |-> "synthesis reasoning"]
  ELSE fallbackSynthesis(iterations)

(***************************************************************************)
(* queryProjectChunks (lib/vector/query.ts).  A hit of the search is       *)
(* [id, score, tokens]: id is its position in the search result, score is  *)
(* in hundredths, tokens is estimateTokenCount of its text.                *)
(***************************************************************************)
\* the budget of the loop: tokenSum + chunk.tokens > 27_000
TokenBudget == 27000

Hit(id, score, tokens) == [id |-> id, score |-> score, tokens |-> tokens]

\* the search returns hits of score 0.5 and more (score_threshold)
HitScores == {50, 70, 90}
HitTokens == {10000, 17000, 27000}

\* the results of qdrant.search: 0..MaxHits hits, in any order of score
SearchResults ==
  UNION {{[k \in 1..n |-> Hit(k, st[k][1], st[k][2])] :
            st \in [1..n -> HitScores \X HitTokens]} : n \in 0..MaxHits}

\* r put into the sequence sorted by descending score, after the elements
\* of the same score
insertByScore(sorted, r) ==
  LET lower == {k \in 1..Len(sorted) : sorted[k].score < r.score}
      at == IF lower = {} THEN Len(sorted) + 1 ELSE SetMin(lower)
  IN  SubSeq(sorted, 1, at - 1) \o <<r>> \o SubSeq(sorted, at, Len(sorted))

RECURSIVE sortByScore(_)
\* .sort((a, b) => b.score - a.score), a stable sort
sortByScore(hits) ==
  IF Len(hits) <= 1 THEN hits
  ELSE insertByScore(sortByScore(SubSeq(hits, 1, Len(hits) - 1)), hits[Len(hits)])

RECURSIVE acceptChunks(_, _, _)
\* the for loop: the chunk that would exceed the budget ends the loop
acceptChunks(filtered, chunks, tokenSum) ==
  IF filtered = <<>> THEN chunks
  ELSE IF tokenSum + Head(filtered).tokens > TokenBudget THEN chunks
  ELSE acceptChunks(Tail(filtered), Append(chunks, Head(filtered)),
                    tokenSum + Head(filtered).tokens)

RECURSIVE acceptChunks_skipping(_, _, _)
\* the loop with continue for break: a chunk that does not fit is skipped
acceptChunks_skipping(filtered, chunks, tokenSum) ==
  IF filtered = <<>> THEN chunks
  ELSE IF tokenSum + Head(filtered).tokens > TokenBudget
  THEN acceptChunks_skipping(Tail(filtered), chunks, tokenSum)
  ELSE acceptChunks_skipping(Tail(filtered), Append(chunks, Head(filtered)),
                             tokenSum + Head(filtered).tokens)

\* the loop of queryProjectChunks
budgetedChunks_skipping(filtered) == acceptChunks_skipping(filtered, <<>>, 0)

\* the loop of queryProjectChunks
budgetedChunks(filtered) == acceptChunks(filtered, <<>>, 0)

queryProjectChunks(searchResult) == budgetedChunks(sortByScore(searchResult))

(***************************************************************************)
(* Table names at import: transformers.normalizeTableName.                 *)
(***************************************************************************)
\* .substring(0, 63)
NameLimit == 63

\* the elements of s at the positions of keep, in order
keepAt(s, keep) ==
  [j \in 1..Cardinality(keep) |->
     s[CHOOSE k \in keep : Cardinality({x \in keep : x <= k}) = j]]

\* .replace(/[^a-z0-9_]/g, '_')
replaceNonIdent(s) ==
  [k \in 1..Len(s) |-> IF s[k] \in IdentChars THEN s[k] ELSE "_"]

\* .replace(/^[0-9]/, '_$&')
prefixDigit(s) ==
  IF s # <<>> /\ s[1] \in DigitChars THEN <<"_">> \o s ELSE s

\* .replace(/_+/g, '_')
collapseUnderscores(s) ==
  keepAt(s, {k \in 1..Len(s) : s[k] # "_" \/ k = 1 \/ s[k - 1] # "_"})

\* .replace(/^_|_$/g, ''): the match at the start, then the match at the end
\* of what is left
stripEdgeUnderscores(s) ==
  LET a == IF s # <<>> /\ s[1] = "_" THEN Tail(s) ELSE s
  IN  IF a # <<>> /\ a[Len(a)] = "_" THEN SubSeq(a, 1, Len(a) - 1) ELSE a

\* String.prototype.substring(0, n)
substring0(s, n) == SubSeq(s, 1, IF Len(s) < n THEN Len(s) ELSE n)

\* transformers.normalizeTableName(name)
normalizeTableName(name) ==
  IF name = <<>> \/ trim(name) = <<>> THEN <<"t","a","b","l","e","_","1">>
  ELSE substring0(
         stripEdgeUnderscores(
           collapseUnderscores(
             prefixDigit(replaceNonIdent(toLowerCase(trim(name)))))),
         NameLimit)

\* transformers.normalizeColumnName(name), called without an index
normalizeColumnName(name) ==
  IF name = <<>> \/ trim(name) = <<>> THEN <<"c","o","l","_","1">>
  ELSE stripEdgeUnderscores(
         collapseUnderscores(
           prefixDigit(replaceNonIdent(toLowerCase(trim(name))))))

\* the characters of the short sheet names
SheetChars == {"a", "A", "1", "-", "_", " "}

RECURSIVE NamesUpTo(_)
\* the sheet names of at most n characters
NamesUpTo(n) ==
  IF n = 0 THEN {<<>>}
  ELSE LET shorter == NamesUpTo(n - 1)
       IN  shorter \cup {w \o <<c>> : w \in shorter, c \in SheetChars}

\* names around the limit of 63 characters
LongNames ==
  LET as(n) == [k \in 1..n |-> "a"]
  IN  {as(NameLimit), as(NameLimit + 1), <<"1">> \o as(NameLimit),
       as(NameLimit - 1) \o <<"-", "a">>}

\* the sheet names of the workbooks imported
SheetNames == NamesUpTo(MaxName) \cup LongNames

(***************************************************************************)
(* Workbooks.  A sheet is [name, header, rows]: header is the texts of its *)
(* first line, rows is what XLSX.utils.sheet_to_json returns for it, one   *)
(* object for each line below the header, keyed by the header texts.       *)
(***************************************************************************)
\* the sheet at position k of a workbook, with n lines below its one-column
\* header; each cell holds the position of the sheet and the number of the line
Sheet(name, column, n, k) ==
  [name |-> name, header |-> <<column>>,
   rows |-> [j \in 1..n |-> (column :> <<Digits[k + 1], Digits[j + 1]>>)]]

\* sheet names: "A 1" and "a_1" have the same normal form
WorkbookSheetNames == {<<"A", " ", "1">>, <<"a", "_", "1">>, <<"b">>}

\* header texts: "a" is its own normal form, "A" is not
WorkbookColumns == {<<"a">>, <<"A">>}

Workbooks ==
  UNION {{[k \in 1..n |-> Sheet(names[k], columns[k], counts[k], k)] :
            names \in [1..n -> WorkbookSheetNames],
            columns \in [1..n -> WorkbookColumns],
            counts \in [1..n -> 0..1]} : n \in 1..MaxSheets}

\* const allData: Record<string, any[]> = {}
NoTables == [t \in {} |-> <<>>]

\* allData[tableName] = jsonData
assign(allData, tableName, jsonData) == (tableName :> jsonData) @@ allData

(***************************************************************************)
(* State.                                                                  *)
(***************************************************************************)
VARIABLES
  dbFile,        \* the file at dbPath that holds a project's tables
  call,          \* the arguments of the last executeSqlQuery call
  qres,          \* what that call resolved to
  excelRecords,  \* the number of ExcelSqlite records of the project
  pc,            \* where the handling of a question stands
  planCall,      \* what decideDataSource met: [made, sourcesOk, sources, response]
  decision,      \* the AgentDecision of the run
  i,             \* the loop counter of executeIterativeAgent
  iterations,    \* the IterationResults collected so far
  answers,       \* what the awaited calls of the loop and the synthesis
                 \* resolved to, in order: [site, retrieval, kind]
  result,        \* what executeAgentDecision returned
  retrievalDown, \* whether a retrieval path (database, vector index) raised
  searchResult,  \* what qdrant.search resolved to in queryProjectChunks
  ranked,        \* what queryProjectChunks returned: [done, chunks]
  sheetName,     \* the name of the sheet importExcelToSQLite is at
  tableName,     \* the key the sheet is stored under: [done, name]
  workbook,      \* the sheets of the workbook importExcelToSQLite reads
  sheetAt,       \* the position of the next sheet of the loop
  tables,        \* the TableInfo list: [table, rows, columns]
  allData        \* the rows stored under each table name

qvars == <<dbFile, call, qres>>
avars == <<excelRecords, pc, planCall, decision, i, iterations, answers, result,
           retrievalDown>>
rvars == <<searchResult, ranked>>
ivars == <<sheetName, tableName, workbook, sheetAt, tables, allData>>
vars  == <<dbFile, call, qres, excelRecords, pc, planCall, decision, i,
           iterations, answers, result, retrievalDown, searchResult, ranked,
           sheetName, tableName, workbook, sheetAt, tables, allData>>

NoCall == [made |-> FALSE, query |-> <<>>, allowedTables |-> {}, limit |-> 0]

NoPlanCall ==
  [made |-> FALSE, sourcesOk |-> TRUE, sources |-> <<>>,
   response |-> [kind |-> "throw", obj |-> NoObject]]

\* confidence is sum / count (NaN when count is 0), set by the synthesis only
NoResult ==
  [context |-> Undefined, mode |-> "", source |-> "",
   hasConfidence |-> FALSE, confidence |-> [sum |-> 0, count |-> 0]]

\* a result without metadata.confidence
PlainResult(context, mode, source) ==
  [context |-> context, mode |-> mode, source |-> source,
   hasConfidence |-> FALSE, confidence |-> [sum |-> 0, count |-> 0]]

\* no query has been made
QueryIdle ==
  /\ dbFile = MissingFile
  /\ call = NoCall
  /\ qres = Failure("", FALSE)

\* no question is being handled
AgentIdle(at) ==
  /\ pc = at
  /\ planCall = NoPlanCall
  /\ decision = fallbackDecision
  /\ i = 0
  /\ iterations = <<>>
  /\ answers = <<>>
  /\ result = NoResult
  /\ retrievalDown = FALSE

NotRanked == [done |-> FALSE, chunks |-> <<>>]

\* queryProjectChunks has not been called
RankerIdle ==
  /\ searchResult = <<>>
  /\ ranked = NotRanked

\* no sheet has been named
NotNormalized == [done |-> FALSE, name |-> <<>>]

\* no import is under way
NoWorkbook ==
  /\ workbook = <<>>
  /\ sheetAt = 1
  /\ tables = <<>>
  /\ allData = NoTables

ImportIdle ==
  /\ sheetName = <<>>
  /\ tableName = NotNormalized
  /\ NoWorkbook

(***************************************************************************)
(* The query engine as a state machine.                                    *)
(***************************************************************************)
InitQuery ==
  /\ dbFile \in JsonFiles \cup {CorruptFile}
  /\ call = NoCall
  /\ qres = Failure("", FALSE)
  /\ excelRecords = 0
  /\ AgentIdle("idle")
  /\ RankerIdle
  /\ ImportIdle

\* one call of executeSqlQuery(dbPath, query, allowedTables, limit); the
\* function keeps no state between calls, so a behaviour follows one call
ExecuteSqlQuery(query, allowedTables, limit) ==
  /\ ~call.made
  /\ call' = [made |-> TRUE, query |-> query, allowedTables |-> allowedTables,
              limit |-> limit]
  /\ qres' = executeSqlQuery(dbFile, query, allowedTables, limit)
  /\ UNCHANGED dbFile
  /\ UNCHANGED <<avars, rvars, ivars>>

\* cleanupDatabase(dbPath), before the call: the file is unlinked when it exists
CleanupDatabase ==
  /\ ~call.made
  /\ dbFile.kind # "missing"
  /\ dbFile' = MissingFile
  /\ UNCHANGED <<call, qres>>
  /\ UNCHANGED <<avars, rvars, ivars>>

NextQuery ==
  \/ \E c \in Calls : ExecuteSqlQuery(c[1], c[2], c[3])
  \/ CleanupDatabase

SpecQuery == InitQuery /\ [][NextQuery]_vars

(***************************************************************************)
(* The handling of a question as a state machine: the chat route (POST)    *)
(* and the run of intelligentDataAgent it starts; a step ends where the    *)
(* code awaits the language model, the database or a retrieval.            *)
(***************************************************************************)
\* the most ExcelSqlite records of the project
MaxRecords == 2

InitAgent ==
  /\ QueryIdle
  /\ excelRecords \in {0, MaxRecords}
  /\ AgentIdle("post")
  /\ RankerIdle
  /\ ImportIdle

\* the gate of the route: hasExcelFiles and analyzeProjectDataSources, which
\* answer "no Excel" when their lookup raises; contextFiles is the number of
\* context files of the project
Post(contextFiles, lookupOk) ==
  /\ pc = "post"
  /\ pc' = IF lookupOk /\ excelRecords > 0 /\ contextFiles > 0 THEN "start"
           ELSE "vectorOnly"
  /\ UNCHANGED <<excelRecords, planCall, decision, i, iterations, answers,
                 result, retrievalDown>>
  /\ UNCHANGED <<qvars, rvars, ivars>>

\* the branches of the route without the agent: queryProjectChunks alone
VectorOnly(vector) ==
  /\ pc = "vectorOnly"
  /\ IF vector = "throw"
     THEN /\ pc' = "threw"
          /\ retrievalDown' = TRUE
          /\ UNCHANGED result
     ELSE /\ result' = PlainResult(Defined(retrievedText("vector", vector)), "",
                                   "vector-search-only")
          /\ pc' = "routed"
          /\ UNCHANGED retrievalDown
  /\ UNCHANGED <<excelRecords, planCall, decision, i, iterations, answers>>
  /\ UNCHANGED <<qvars, rvars, ivars>>

\* deleteProjectById in another request, between the gate and the lookup
\* of the planner: the ExcelSqlite records of the project are deleted
DeleteProjectById ==
  /\ pc \in {"post", "start"}
  /\ excelRecords > 0
  /\ excelRecords' = 0
  /\ UNCHANGED <<pc, planCall, decision, i, iterations, answers, result,
                 retrievalDown>>
  /\ UNCHANGED <<qvars, rvars, ivars>>

\* const decision = await decideDataSource(question, projectId); the call
\* of the language model may never resolve
DecideDataSource(sourcesOk, response) ==
  /\ pc = "start"
  /\ planCall' = [made |-> TRUE, sourcesOk |-> sourcesOk,
                  sources |-> IF sourcesOk
                              THEN analyzeAvailableSources(excelRecords) ELSE <<>>,
                  response |-> response]
  /\ retrievalDown' = (retrievalDown \/ ~sourcesOk)
  /\ IF sourcesOk /\ response.kind = "never"
     THEN pc' = "waiting" /\ UNCHANGED decision
     ELSE /\ decision' = decideDataSource(sourcesOk, response)
          /\ pc' = "decided"
  /\ UNCHANGED <<excelRecords, i, iterations, answers, result>>
  /\ UNCHANGED <<qvars, rvars, ivars>>

\* the log of the decision (reasoning.substring raises on a non-string) and
\* the branch of executeAgentDecision on decision.mode
Dispatch ==
  /\ pc = "decided"
  /\ pc' = IF decision.selectedSource.reasoning = "number" THEN "threw"
           ELSE IF decision.mode = "iterative" THEN "loop"
           ELSE "single"
  /\ UNCHANGED <<excelRecords, planCall, decision, i, iterations, answers,
                 result, retrievalDown>>
  /\ UNCHANGED <<qvars, rvars, ivars>>

\* one pass of the for loop of executeIterativeAgent: plan[i] is read
\* (a TypeError when it is undefined, caught by executeAgentDecision),
\* executeIteration runs, its result is pushed and the review is checked;
\* the review is asked for only when the retrieval did not raise
ExecuteIteration(retrieval, response) ==
  /\ pc = "loop"
  /\ loopContinues(decision, i)
  /\ IF ~hasPlanItem(decision, i)
     THEN /\ pc' = "catch"
          /\ UNCHANGED <<i, iterations, answers, retrievalDown>>
     ELSE /\ retrieval \in RetrievalsFor(approachOf(decision, i), excelRecords)
          /\ retrievalDown' = (retrievalDown \/ retrieval = "throw")
          /\ answers' = Append(answers,
                               [site |-> "iteration", retrieval |-> retrieval,
                                kind |-> IF retrieval = "throw" THEN "none"
                                         ELSE response.kind])
          /\ IF retrieval # "throw" /\ response.kind = "never"
             THEN pc' = "waiting" /\ UNCHANGED <<i, iterations>>
             ELSE LET iterationResult ==
                        executeIteration(approachOf(decision, i), retrieval, response)
                  IN  /\ iterations' = Append(iterations, iterationResult)
                      /\ IF stopsLoop(iterationResult)
                         THEN pc' = "synth" /\ i' = i
                         ELSE pc' = "loop" /\ i' = i + 1
  /\ UNCHANGED <<excelRecords, planCall, decision, result>>
  /\ UNCHANGED <<qvars, rvars, ivars>>

\* the loop condition fails
LeaveLoop ==
  /\ pc = "loop"
  /\ ~loopContinues(decision, i)
  /\ pc' = "synth"
  /\ UNCHANGED <<excelRecords, planCall, decision, i, iterations, answers,
                 result, retrievalDown>>
  /\ UNCHANGED <<qvars, rvars, ivars>>

\* the synthesis call and the return of executeIterativeAgent and of the
\* iterative branch of executeAgentDecision
Synthesize(response) ==
  /\ pc = "synth"
  /\ answers' = Append(answers, [site |-> "synthesis", retrieval |-> "none",
                                 kind |-> response.kind])
  /\ IF response.kind = "never"
     THEN pc' = "waiting" /\ UNCHANGED result
     ELSE IF response.kind = "throw"
     THEN pc' = "catch" /\ UNCHANGED result
     ELSE /\ result' = [context |-> synthesisOf(response, iterations).finalAnswer,
                        mode |-> "iterative", source |-> "iterative",
                        hasConfidence |-> TRUE,
                        confidence |-> synthesisOf(response, iterations).confidence]
          /\ pc' = "return"
  /\ UNCHANGED <<excelRecords, planCall, decision, i, iterations, retrievalDown>>
  /\ UNCHANGED <<qvars, rvars, ivars>>

\* chunks.map(c => c.text).join('\n\n')
chunksText(vector) == retrievedText("vector", vector)

\* what executeSqlQueryForAgent resolves to for each record of the project:
\* rows ("text") or a failure ("empty")
RecordAttempts(n) == [1..n -> {"text", "empty"}]

\* the records queried by a loop that goes through all of them
recordsQueried_all(attempts) == Len(attempts)

\* the records the loop of the single sql approach queries: it breaks at the
\* first success
recordsQueried(attempts) ==
  LET hits == {k \in 1..Len(attempts) : attempts[k] = "text"}
  IN  IF hits = {} THEN Len(attempts) ELSE SetMin(hits)

\* the single-approach branch of executeAgentDecision; lookup is the outcome
\* of getExcelSqliteByProjectId, attempts those of the records, vector that
\* of queryProjectChunks when it is called; each record queried is logged
SingleApproach(lookup, attempts, vector) ==
  /\ pc = "single"
  /\ attempts \in RecordAttempts(excelRecords)
  /\ IF decision.selectedSource.type = "excel-sql"
     THEN IF lookup = "throw"
          THEN /\ pc' = "catch"
               /\ retrievalDown' = TRUE
               /\ UNCHANGED <<result, answers>>
          ELSE LET n == recordsQueried(attempts)
               IN  /\ answers' = answers \o
                         [k \in 1..n |-> [site |-> "record",
                                          retrieval |-> attempts[k],
                                          kind |-> "none"]]
                   /\ IF n > 0 /\ attempts[n] = "text"
                      THEN /\ result' = PlainResult(Defined(retrievedText("sql", "text")),
                                                    decision.mode, "excel-sql")
                           /\ pc' = "return"
                           /\ UNCHANGED retrievalDown
                      ELSE IF vector = "throw"
                      THEN /\ pc' = "catch"
                           /\ retrievalDown' = TRUE
                           /\ UNCHANGED result
                      ELSE /\ result' = PlainResult(Defined(chunksText(vector)),
                                                    decision.mode, "vector-fallback")
                           /\ pc' = "return"
                           /\ UNCHANGED retrievalDown
     ELSE /\ UNCHANGED answers
          /\ IF vector = "throw"
             THEN /\ pc' = "catch"
                  /\ retrievalDown' = TRUE
                  /\ UNCHANGED result
             ELSE /\ result' = PlainResult(Defined(chunksText(vector)),
                                           decision.mode, "vector-search")
                  /\ pc' = "return"
                  /\ UNCHANGED retrievalDown
  /\ UNCHANGED <<excelRecords, planCall, decision, i, iterations>>
  /\ UNCHANGED <<qvars, rvars, ivars>>

\* the catch block of executeAgentDecision: queryProjectChunks once more
FinalFallback(vector) ==
  /\ pc = "catch"
  /\ IF vector = "throw"
     THEN /\ pc' = "threw"
          /\ retrievalDown' = TRUE
          /\ UNCHANGED result
     ELSE /\ result' = PlainResult(Defined(chunksText(vector)), "vector", "fallback")
          /\ pc' = "return"
          /\ UNCHANGED retrievalDown
  /\ UNCHANGED <<excelRecords, planCall, decision, i, iterations, answers>>
  /\ UNCHANGED <<qvars, rvars, ivars>>

\* back in intelligentDataAgent: result.context.length is logged (a
\* TypeError when context is undefined, rethrown) and the result returned
Return ==
  /\ pc = "return"
  /\ pc' = IF result.context.defined THEN "done" ELSE "threw"
  /\ UNCHANGED <<excelRecords, planCall, decision, i, iterations, answers,
                 result, retrievalDown>>
  /\ UNCHANGED <<qvars, rvars, ivars>>

NextAgent ==
  \/ \E n \in 0..1, ok \in BOOLEAN : Post(n, ok)
  \/ \E v \in RetrievalOutcomes : VectorOnly(v)
  \/ DeleteProjectById
  \/ \E ok \in BOOLEAN, r \in PlanResponses : DecideDataSource(ok, r)
  \/ Dispatch
  \/ \E t \in RetrievalOutcomes, r \in ReviewResponses : ExecuteIteration(t, r)
  \/ LeaveLoop
  \/ \E r \in SynthesisResponses : Synthesize(r)
  \/ \E l \in {"ok", "throw"}, a \in RecordAttempts(excelRecords),
        v \in RetrievalOutcomes : SingleApproach(l, a, v)
  \/ \E v \in RetrievalOutcomes : FinalFallback(v)
  \/ Return

SpecAgent == InitAgent /\ [][NextAgent]_vars

\* every step that can be taken is taken in the end: no request is starved
SpecAgentLive == SpecAgent /\ WF_vars(NextAgent)

(***************************************************************************)
(* decideDataSource alone, on the plans of any length the language model   *)
(* may return.                                                             *)
(***************************************************************************)
\* plan lists of 1 to MaxSteps steps
LongPlanLists == UNION {[1..n -> LaterSteps] : n \in 1..MaxSteps}

\* {plan: [...], maxIterations: <the length of the list>}
LongPlanResponses ==
  {[kind |-> "object",
    obj |-> PlanObject(TRUE, pl, TRUE, Len(pl), FALSE, 0, FALSE)] :
     pl \in LongPlanLists}

InitPlanner ==
  /\ QueryIdle
  /\ excelRecords = 1
  /\ AgentIdle("start")
  /\ RankerIdle
  /\ ImportIdle

NextPlanner == \E response \in LongPlanResponses : DecideDataSource(TRUE, response)

SpecPlanner == InitPlanner /\ [][NextPlanner]_vars

(***************************************************************************)
(* The vector ranker as a state machine: one call of queryProjectChunks.   *)
(***************************************************************************)
InitRanker ==
  /\ QueryIdle
  /\ excelRecords = 0
  /\ AgentIdle("idle")
  /\ RankerIdle
  /\ ImportIdle

\* const searchResult = await qdrant.search(...)
Search(hits) ==
  /\ ~ranked.done
  /\ searchResult = <<>>
  /\ hits # <<>>
  /\ searchResult' = hits
  /\ UNCHANGED ranked
  /\ UNCHANGED <<qvars, avars, ivars>>

\* the sort, the loop and the return of queryProjectChunks
QueryProjectChunks ==
  /\ ~ranked.done
  /\ ranked' = [done |-> TRUE, chunks |-> queryProjectChunks(searchResult)]
  /\ UNCHANGED searchResult
  /\ UNCHANGED <<qvars, avars, ivars>>

NextRanker ==
  \/ \E hits \in SearchResults : Search(hits)
  \/ QueryProjectChunks

SpecRanker == InitRanker /\ [][NextRanker]_vars

(***************************************************************************)
(* The import of a workbook, one sheet of it.                              *)
(***************************************************************************)
InitImport ==
  /\ QueryIdle
  /\ excelRecords = 0
  /\ AgentIdle("idle")
  /\ RankerIdle
  /\ sheetName \in SheetNames
  /\ tableName = NotNormalized
  /\ NoWorkbook

\* const tableName = transformers.normalizeTableName(sheetName);
\* allData[tableName] = jsonData;
ImportSheet ==
  /\ ~tableName.done
  /\ tableName' = [done |-> TRUE, name |-> normalizeTableName(sheetName)]
  /\ UNCHANGED <<sheetName, workbook, sheetAt, tables, allData>>
  /\ UNCHANGED <<qvars, avars, rvars>>

NextImport == ImportSheet

SpecImport == InitImport /\ [][NextImport]_vars

(***************************************************************************)
(* importExcelToSQLite on a workbook: the loop over the sheets, then the   *)
(* write of the store file.                                                *)
(***************************************************************************)
InitWorkbook ==
  /\ QueryIdle
  /\ excelRecords = 0
  /\ AgentIdle("idle")
  /\ RankerIdle
  /\ sheetName = <<>>
  /\ tableName = NotNormalized
  /\ workbook \in Workbooks
  /\ sheetAt = 1
  /\ tables = <<>>
  /\ allData = NoTables

\* one pass of the loop over workbook.SheetNames: a sheet without rows is
\* skipped; the rows are stored as sheet_to_json returned them
ImportNextSheet ==
  /\ dbFile.kind = "missing"
  /\ sheetAt <= Len(workbook)
  /\ LET sheet == workbook[sheetAt]
         jsonData == sheet.rows
         name == normalizeTableName(sheet.name)
         columns == [k \in 1..Len(sheet.header) |-> normalizeColumnName(sheet.header[k])]
     IN  /\ sheetName' = sheet.name
         /\ IF jsonData = <<>>
            THEN UNCHANGED <<tableName, tables, allData>>
            ELSE /\ tableName' = [done |-> TRUE, name |-> name]
                 /\ allData' = assign(allData, name, jsonData)
                 /\ tables' = Append(tables, [table |-> name, rows |-> Len(jsonData),
                                              columns |-> columns])
  /\ sheetAt' = sheetAt + 1
  /\ UNCHANGED workbook
  /\ UNCHANGED <<qvars, avars, rvars>>

\* await fs.promises.writeFile(dbPath, JSON.stringify(allData, null, 2)):
\* the cells are texts, which JSON.parse gives back as they were written
WriteStore ==
  /\ dbFile.kind = "missing"
  /\ sheetAt > Len(workbook)
  /\ dbFile' = [kind |-> "json", data |-> allData]
  /\ UNCHANGED <<call, qres>>
  /\ UNCHANGED <<avars, rvars, ivars>>

NextWorkbook == ImportNextSheet \/ WriteStore

SpecWorkbook == InitWorkbook /\ [][NextWorkbook]_vars

(***************************************************************************)
(* Properties of the query engine (SpecQuery).                             *)
(***************************************************************************)

\* C1: a successful execute returns at most `limit` rows, the caller's
\* ceiling, whatever LIMIT the query carries (with LIMIT n: at most
\* min(n, limit) rows).
C1_RowsWithinCeiling ==
  (call.made /\ qres.success) =>
    /\ Len(qres.data) <= call.limit
    /\ MatchLimit(trim(toLowerCase(call.query))).ok =>
         Len(qres.data) <= parseInt(MatchLimit(trim(toLowerCase(call.query))).g1)

\* a query with LIMIT 9999 returned more rows than the ceiling of the call
C1_CeilingExceeded ==
  /\ call.made
  /\ call.query = Q_select \o Q_from_t \o Q_limit_9999
  /\ call.limit = 1
  /\ qres.success
  /\ Len(qres.data) = 2

\* C6: a query that does not start with `select ` (trimmed, whatever the
\* case) is refused with the error of the validator, returns no rows, and
\* the call never reaches the file of the store.
C6_NotSelectRefused ==
  (call.made /\ ~startsWith(toLowerCase(trim(call.query)), W_select_)) =>
    /\ ~qres.success
    /\ qres.error = "Invalid SQL query"
    /\ qres.data = <<>>
    /\ ~qres.fsAccess

\* `delete from t` against a store that holds t was refused unread
C6_DeleteRefused ==
  /\ call.made
  /\ call.query = Q_delete \o Q_from_t
  /\ dbFile.kind = "json"
  /\ T_t \in call.allowedTables
  /\ qres.error = "Invalid SQL query"
  /\ ~qres.fsAccess

\* C7: a query that starts with `select ` and holds `;` or one of update,
\* delete, insert, drop, create, alter is refused with the error of the
\* validator and returns no rows.
C7_ForbiddenKeywordRefused ==
  (/\ call.made
   /\ startsWith(toLowerCase(trim(call.query)), W_select_)
   /\ \/ includes(toLowerCase(call.query), <<";">>)
      \/ \E w \in ForbiddenWords : includes(toLowerCase(call.query), w)) =>
    /\ ~qres.success
    /\ qres.error = "Invalid SQL query"
    /\ qres.data = <<>>

\* `select * from t union delete` and `select * from t;` against a store
\* that holds t and allows it were refused
C7_UnionDeleteRefused ==
  /\ call.made
  /\ call.query \in {Q_select \o Q_from_t \o Q_union_delete,
                     Q_select \o Q_from_t \o Q_semicolon}
  /\ dbFile.kind = "json"
  /\ T_t \in call.allowedTables
  /\ ~qres.success
  /\ qres.error = "Invalid SQL query"

C9_FirstViolationWins ==
  call.made =>
    LET q == trim(toLowerCase(call.query))
    IN  IF ~startsWith(q, W_select_)
          THEN qres.error = "Invalid SQL query"
        ELSE IF includes(q, <<";">>) \/ \E w \in ForbiddenWords : includes(q, w)
          THEN qres.error = "Invalid SQL query"
        ELSE IF ~MatchFrom(q).ok
          THEN qres.error = "No FROM clause found"
        ELSE IF stripQuotes(MatchFrom(q).g1) \notin call.allowedTables
          THEN qres.error = "Table not allowed"
        ELSE TRUE

\* `select *`, which has no FROM clause, was answered with the error of the
\* missing file
C9_StoreReportedFirst ==
  /\ call.made
  /\ call.query = Q_select
  /\ dbFile.kind = "missing"
  /\ qres.error = "Database file not found"

\* C10: ORDER BY is stable: rows of the result that compare equal on every
\* sort key (values are compared in lower case) are in their order in the
\* table (the id of a row is its row number).
C10_OrderByStable ==
  (call.made /\ qres.success) =>
    LET keys == IF includes(call.query, Q_order_b_a) THEN {C_a, C_b}
                ELSE IF includes(call.query, Q_order_a) THEN {C_a}
                ELSE {}
    IN  keys # {} =>
          \A p \in 1..Len(qres.data), q \in 1..Len(qres.data) :
            (p < q /\ \A c \in keys : toLowerCase(qres.data[p][c])
                                        = toLowerCase(qres.data[q][c])) =>
              Ord[qres.data[p][C_id][1]] < Ord[qres.data[q][C_id][1]]

\* two rows equal on a and different on b were ordered by a, descending
C10_EqualKeysOrdered ==
  /\ call.made
  /\ qres.success
  /\ call.query = Q_select \o Q_from_t \o Q_order_a_desc
  /\ Len(qres.data) = 2
  /\ qres.data[1][C_a] = qres.data[2][C_a]
  /\ qres.data[1][C_b] # qres.data[2][C_b]
  /\ qres.data[1][C_id] = <<"1">>

(***************************************************************************)
(* Properties of the agent (SpecAgent).                                    *)
(***************************************************************************)

\* C2: whatever the language model answers at the plan, review and
\* synthesis calls, a run in which no retrieval path raised ends with a
\* result whose context is a text and whose mode is set; no exception
\* leaves intelligentDataAgent.
C2_RunWellFormed ==
  /\ pc = "threw" => retrievalDown
  /\ pc = "done" =>
       /\ result.context.defined
       /\ result.mode \in {"sql", "vector", "hybrid", "iterative"}

\* a run threw although every retrieval path was reachable: the plan was a
\* parsed object and the synthesis a parsed object without finalAnswer
C2_ThrewWithRetrievalUp ==
  /\ pc = "threw"
  /\ ~retrievalDown
  /\ planCall.sourcesOk
  /\ planCall.response.kind = "object"
  /\ decision.mode = "iterative"
  /\ decision.selectedSource.reasoning = "text"
  /\ ~result.context.defined
  /\ result.mode = "iterative"

\* C3: once the review of an iteration has shouldTryAlternative = false, no
\* further iteration is executed, and the step that appends such an
\* iteration goes on to the synthesis, whatever the score of the review,
\* the remaining plan steps and maxIterations.
C3_EarlyExit ==
  [][LET stopped(its) ==
           /\ its # <<>>
           /\ its[Len(its)].metadata.hasReview
           /\ its[Len(its)].metadata.review.shouldTryAlternative = "false"
     IN  /\ stopped(iterations) => (iterations' = iterations /\ pc' # "loop")
         /\ (iterations' # iterations /\ stopped(iterations')) => pc' = "synth"
    ]_vars

\* the first of two plan steps was reviewed with score 0.3 and
\* shouldTryAlternative = false, maxIterations allowed a second iteration,
\* and the run stands at the synthesis with one iteration
C3_StoppedAfterFirst ==
  /\ pc = "synth"
  /\ Len(iterations) = 1
  /\ iterations[1].metadata.hasReview
  /\ iterations[1].metadata.review = Review(TRUE, 30, "false")
  /\ planOf(decision).hasLength
  /\ planOf(decision).length >= 2
  /\ maxIterationsOf(decision) >= 2
  /\ hasPlanItem(decision, 1)

\* C4: when the planning call resolves with a non-empty text that holds no
\* parseable object, decideDataSource returns the decision of the fallback
\* plan [sql, vector] with maxIterations 2: the selected source is
\* excel-sql with confidence 0.8, the one alternative is vector-search, and
\* the mode is iterative.
C4_UnparseablePlanFallback ==
  (planCall.made /\ planCall.sourcesOk /\ planCall.response.kind = "nojson") =>
    /\ decision.selectedSource.type = "excel-sql"
    /\ decision.selectedSource.confidence = 80
    /\ decision.selectedSource.metadata.hasMaxIterations
    /\ decision.selectedSource.metadata.maxIterations = 2
    /\ Len(decision.selectedSource.metadata.plan.plan) = 2
    /\ Len(decision.alternativeSources) = 1
    /\ decision.alternativeSources[1].type = "vector-search"
    /\ decision.mode = "iterative"

\* the planning call resolved with an unparseable text and the run went on
\* with the iterative mode
C4_UnparseablePlanDecided ==
  /\ pc = "loop"
  /\ planCall.sourcesOk
  /\ planCall.response.kind = "nojson"
  /\ decision.mode = "iterative"

\* C5: when planning raises (the lookup of the sources fails, the planning
\* call rejects or resolves with an empty text, or the parsed object has no
\* plan list), decideDataSource returns the fixed decision: vector-search
\* with confidence 0.5, mode vector and no alternatives.
C5_PlanningErrorFallback ==
  (/\ planCall.made
   /\ \/ ~planCall.sourcesOk
      \/ planCall.response.kind \in {"throw", "empty"}
      \/ planCall.response.kind = "object" /\ ~planCall.response.obj.hasPlan) =>
    /\ decision.selectedSource.type = "vector-search"
    /\ decision.selectedSource.confidence = 50
    /\ decision.alternativeSources = <<>>
    /\ decision.mode = "vector"

\* the planning call resolved with an empty text, the sources being known,
\* and the run went on with the single vector search
C5_EmptyTextDecided ==
  /\ pc = "single"
  /\ planCall.sourcesOk
  /\ planCall.response.kind = "empty"
  /\ decision = fallbackDecision

(***************************************************************************)
(* Properties of the vector ranker (SpecRanker).                           *)
(***************************************************************************)

\* C11: queryProjectChunks returns the longest prefix of the hits in
\* descending order of score whose tokens sum to the budget at most: the
\* scores of the chunks do not increase, their tokens do not exceed the
\* budget, no hit left out scores higher than a chunk, and the first hit
\* left out (the highest score, the earliest among equals) would exceed the
\* budget; three chunks of 10000 tokens give 2 chunks.
C11_BudgetedPrefix ==
  ranked.done =>
    LET chunks == ranked.chunks
        n      == Len(chunks)
        total  == sumOf([k \in 1..n |-> chunks[k].tokens])
        taken  == {chunks[k].id : k \in 1..n}
        rest   == {k \in 1..Len(searchResult) : k \notin taken}
        first  == {k \in rest : \A j \in rest :
                     \/ searchResult[j].score < searchResult[k].score
                     \/ searchResult[j].score = searchResult[k].score /\ k <= j}
    IN  /\ \A k \in 1..n : chunks[k] = searchResult[chunks[k].id]
        /\ \A k \in 1..n, j \in 1..n : k < j => chunks[k].id # chunks[j].id
        /\ \A k \in 1..(n - 1) : chunks[k].score >= chunks[k + 1].score
        /\ total <= TokenBudget
        /\ \A k \in 1..n, j \in rest : chunks[k].score >= searchResult[j].score
        /\ \A k \in first : total + searchResult[k].tokens > TokenBudget
        /\ (Len(searchResult) = 3
              /\ \A k \in 1..3 : searchResult[k].tokens = 10000) => n = 2

\* the highest hit of 17000 tokens was returned alone: the next, of 17000
\* tokens, ended the loop although the last, of 10000 tokens, would fit
C11_LaterSmallerLeftOut ==
  /\ ranked.done
  /\ Len(searchResult) = 3
  /\ searchResult[1] = Hit(1, 50, 10000)
  /\ searchResult[2] = Hit(2, 70, 17000)
  /\ searchResult[3] = Hit(3, 90, 17000)
  /\ ranked.chunks = <<Hit(3, 90, 17000)>>

(***************************************************************************)
(* Properties of the review loop and its fallbacks (SpecAgent).            *)
(***************************************************************************)

\* C12: when the execution of a plan step raises (its retrieval or its
\* review call), the loop goes on: the iteration appended has confidence
\* 0.1, reasoning "Execution failed" and the message of the error, and the
\* loop stands at the next plan step.
C12_FailedStepContinues ==
  [][(/\ Len(iterations') = Len(iterations) + 1
      /\ \/ answers'[Len(answers')].retrieval = "throw"
         \/ answers'[Len(answers')].kind = "throw") =>
       /\ iterations'[Len(iterations')].confidence = 10
       /\ iterations'[Len(iterations')].reasoning = "Execution failed"
       /\ iterations'[Len(iterations')].metadata.error # ""
       /\ SubSeq(iterations', 1, Len(iterations)) = iterations
       /\ pc' = "loop"
       /\ i' = i + 1
    ]_vars

\* the retrieval of the first step raised and the second step was executed
C12_SecondStepAfterFailure ==
  /\ Len(iterations) = 2
  /\ answers[1].retrieval = "throw"
  /\ iterations[1].confidence = 10
  /\ iterations[1].reasoning = "Execution failed"
  /\ iterations[2].metadata.hasReview

\* C13: when the synthesis response holds no parseable object, the final
\* answer is the results of the executed iterations, in their order, joined
\* by a blank line, and the final confidence is the sum of their
\* confidences divided by their number.
C13_SynthesisFallback ==
  (/\ pc \in {"return", "done", "threw"}
   /\ result.source = "iterative"
   /\ answers # <<>>
   /\ answers[Len(answers)].site = "synthesis"
   /\ answers[Len(answers)].kind = "nojson") =>
    /\ result.context =
         Defined(joinBlank([k \in 1..Len(iterations) |-> iterations[k].result]))
    /\ result.hasConfidence
    /\ result.confidence.sum =
         sumOf([k \in 1..Len(iterations) |-> iterations[k].confidence])
    /\ result.confidence.count = Len(iterations)

\* two iterations, of confidence 0.1 and 0.3, were joined by the fallback
C13_TwoResultsJoined ==
  /\ pc = "done"
  /\ Len(iterations) = 2
  /\ Len(answers) = 3
  /\ answers[3] = [site |-> "synthesis", retrieval |-> "none", kind |-> "nojson"]
  /\ iterations[1].confidence = 10
  /\ iterations[2].confidence = 30
  /\ result.context.text =
       <<"Error occurred during execution">> \o <<"\n\n">> \o iterations[2].result
  /\ iterations[2].result # <<>>
  /\ result.confidence = [sum |-> 40, count |-> 2]

\* C14: when the review response of an iteration holds no parseable object,
\* the review is {overallScore: 0.7, shouldTryAlternative: false}: the
\* iteration keeps the retrieved result with confidence 0.7 and is the last
\* of the loop.
C14_ReviewFallback ==
  \A k \in 1..Len(iterations) :
    answers[k].kind = "nojson" =>
      /\ iterations[k].metadata.hasReview
      /\ iterations[k].metadata.review = Review(TRUE, 70, "false")
      /\ iterations[k].confidence = 70
      /\ iterations[k].result =
           retrievedText(iterations[k].approach, answers[k].retrieval)
      /\ k = Len(iterations)
      /\ pc # "loop"

\* the review of the first of two steps was unparseable and the run stands
\* at the synthesis with the retrieved rows
C14_UnparseableReviewStops ==
  /\ pc = "synth"
  /\ Len(iterations) = 1
  /\ answers[1] = [site |-> "iteration", retrieval |-> "text", kind |-> "nojson"]
  /\ iterations[1].result # <<>>
  /\ planOf(decision).hasLength
  /\ planOf(decision).length >= 2
  /\ maxIterationsOf(decision) >= 2
  /\ hasPlanItem(decision, 1)

C16_FailedQueryRecorded ==
  \A k \in 1..Len(iterations) :
    (iterations[k].approach = "sql" /\ answers[k].retrieval = "empty") =>
      /\ iterations[k].confidence = 10
      /\ iterations[k].reasoning = "Execution failed"
      /\ iterations[k].metadata.error # ""

\* a sql step whose attempts all failed was reviewed as an empty result
\* and recorded with the score of the review and no error
C16_FailedQueryReviewed ==
  /\ Len(iterations) = 1
  /\ iterations[1].approach = "sql"
  /\ answers[1] = [site |-> "iteration", retrieval |-> "empty", kind |-> "object"]
  /\ iterations[1].result = <<>>
  /\ iterations[1].confidence = 30
  /\ iterations[1].reasoning = "Standard execution"
  /\ iterations[1].metadata.error = ""

C18_VectorOnlyWithoutTables ==
  (/\ planCall.made
   /\ planCall.sourcesOk
   /\ excelRecords = 0
   /\ pc # "waiting") =>
    /\ planCall.sources = <<"vector-search">>
    /\ decision.mode = "vector"
    /\ decision.selectedSource.type = "vector-search"
    /\ \A k \in 1..Len(decision.alternativeSources) :
         decision.alternativeSources[k].type = "vector-search"
    /\ \A k \in 1..Len(iterations) : iterations[k].approach # "sql"

\* the planner listed the vector search alone, the planning response was
\* unparseable, and the decision is excel-sql in iterative mode
C18_SqlPlannedWithoutTables ==
  /\ planCall.made
  /\ planCall.sourcesOk
  /\ excelRecords = 0
  /\ planCall.sources = <<"vector-search">>
  /\ planCall.response.kind = "nojson"
  /\ decision.selectedSource.type = "excel-sql"
  /\ decision.mode = "iterative"

\* C19: every handling of a question ends: it returns a result or fails,
\* also when a call of the language model never responds.
C19_RunReturns == <>(pc \in {"done", "threw", "routed"})

\* the planning call has not responded and the run waits for it
C19_WaitingForPlan ==
  /\ pc = "waiting"
  /\ planCall.made
  /\ planCall.sourcesOk
  /\ planCall.response.kind = "never"

(***************************************************************************)
(* Properties of the import (SpecImport).                                  *)
(***************************************************************************)

\* C20: the table name a sheet is stored under is a normalized identifier:
\* not empty, of at most 63 characters, all of them in [a-z0-9_], and the
\* first of them not a digit, for every sheet name.
C20_NormalizedIdentifier ==
  tableName.done =>
    /\ tableName.name # <<>>
    /\ Len(tableName.name) <= NameLimit
    /\ \A k \in 1..Len(tableName.name) : tableName.name[k] \in IdentChars
    /\ tableName.name[1] \notin DigitChars

\* the sheet "1a" is stored under the name "1a", which starts with a digit
C20_DigitFirst ==
  /\ tableName.done
  /\ sheetName = <<"1", "a">>
  /\ tableName.name = <<"1", "a">>

(***************************************************************************)
(* Properties of the decision (SpecPlanner) and of the loop (SpecAgent).   *)
(***************************************************************************)

\* C23: for a plan of n steps the selected source has confidence 0.8 and
\* the k-th alternative (k = 1..n-1) has confidence 0.6 - 0.1*(k-1), floored
\* at 0: no alternative has a confidence below 0, whatever the length of
\* the plan.
C23_AlternativeConfidences ==
  (planCall.made /\ planCall.response.kind = "object" /\ pc = "decided") =>
    /\ decision.selectedSource.confidence = 80
    /\ \A k \in 1..Len(decision.alternativeSources) :
         /\ decision.alternativeSources[k].confidence =
              (IF 60 - 10 * (k - 1) > 0 THEN 60 - 10 * (k - 1) ELSE 0)
         /\ decision.alternativeSources[k].confidence >= 0

\* a plan of 9 steps was decided on and its 8th alternative has the
\* confidence -0.1
C23_NegativeConfidence ==
  /\ pc = "decided"
  /\ Len(planCall.response.obj.plan) = 9
  /\ Len(decision.alternativeSources) = 8
  /\ decision.alternativeSources[8].confidence = -10

\* C24: the number of iterations executed never exceeds
\* min(planLength, maxIterations), maxIterations being the bound the plan
\* carries, 0 included.
C24_IterationsWithinBound ==
  LET metadata == decision.selectedSource.metadata
  IN  (planCall.made /\ metadata.hasPlan /\ metadata.hasMaxIterations) =>
        /\ Len(iterations) <= metadata.maxIterations
        /\ Len(iterations) <= Len(metadata.plan.plan)

\* the plan carries maxIterations 0 and an iteration was executed
C24_IterationWithBoundZero ==
  /\ decision.selectedSource.metadata.hasMaxIterations
  /\ decision.selectedSource.metadata.maxIterations = 0
  /\ Len(iterations) >= 1
  /\ Len(iterations) <= Len(decision.selectedSource.metadata.plan.plan)

\* C25: every IterationResult the loop appends has a confidence within
\* [0, 1], whatever overallScore the review returns.
C25_ConfidenceInUnitInterval ==
  \A k \in 1..Len(iterations) :
    iterations[k].confidence >= 0 /\ iterations[k].confidence <= 100

\* the review returned overallScore 1.5 and the iteration has confidence 1.5
C25_ConfidenceAboveOne ==
  /\ Len(iterations) >= 1
  /\ iterations[1].metadata.hasReview
  /\ iterations[1].metadata.review.overallScore = 150
  /\ iterations[1].confidence = 150

(***************************************************************************)
(* Properties of the clauses and of the validator (SpecQuery).             *)
(***************************************************************************)

\* data is sorted by the keys: no row compares greater than the next one
SortedBy(data, sortConfigs) ==
  \A k \in 1..(Len(data) - 1) : compareRows(data[k], data[k + 1], sortConfigs) <= 0

\* C26: ORDER BY a, with no direction keyword, gives the rows sorted
\* ascending by a; ORDER BY b asc, a desc gives them sorted by b ascending
\* and, among equal b, by a descending.
C26_OrderByEveryKey ==
  (call.made /\ qres.success) =>
    /\ call.query = Q_select \o Q_from_t \o Q_order_a =>
         SortedBy(qres.data, <<[column |-> C_a, direction |-> W_asc]>>)
    /\ call.query = Q_select \o Q_from_t \o Q_order_b_a =>
         SortedBy(qres.data, <<[column |-> C_b, direction |-> W_asc],
                               [column |-> C_a, direction |-> W_desc]>>)

\* ORDER BY a returned the row with a = y before the row with a = x
C26_BareKeyNotSorted ==
  /\ call.made
  /\ call.query = Q_select \o Q_from_t \o Q_order_a
  /\ qres.success
  /\ Len(qres.data) = 2
  /\ qres.data[1][C_a] = V_y
  /\ qres.data[2][C_a] = V_x

\* the WHERE clauses tried and the equalities each of them states
WhereCases ==
  {[clause |-> Q_where_a, equalities |-> {<<C_a, V_x>>}],
   [clause |-> Q_where_ab, equalities |-> {<<C_a, V_x>>, <<C_b, V_y>>}],
   [clause |-> Q_where_like, equalities |-> {}],
   [clause |-> Q_where_x_and_y,
    equalities |-> {<<C_a, <<"x"," ","a","n","d"," ","y">>>>}]}

\* the row has the value in the column, letter case ignored
RowSatisfies(row, equality) ==
  HasCell(row, equality[1])
    /\ toLowerCase(row[equality[1]]) = toLowerCase(equality[2])

\* C27: for a WHERE clause of conditions joined by AND the rows returned
\* are, in their original order, exactly the rows that satisfy every
\* condition of the form column = 'value', letter case ignored; a condition
\* of another form (a LIKE) filters nothing and the query succeeds.
C27_WhereKeepsMatchingRows ==
  \A case \in WhereCases :
    (call.made /\ dbFile.kind = "json"
       /\ call.query = Q_select \o Q_from_t \o case.clause) =>
      /\ qres.success
      /\ qres.data =
           sliceTo(SelectSeq(dbFile.data[T_t],
                             LAMBDA row : \A e \in case.equalities :
                                            RowSatisfies(row, e)),
                   call.limit)

\* WHERE a = 'x and y' returned a row whose a is x
C27_QuotedAndSplits ==
  /\ call.made
  /\ call.query = Q_select \o Q_from_t \o Q_where_x_and_y
  /\ qres.success
  /\ Len(qres.data) >= 1
  /\ qres.data[1][C_a] = V_x

\* a forbidden word stands in s as a whole token
hasForbiddenToken(s) ==
  \E w \in ForbiddenWords : \E p \in 1..Len(s) :
    /\ IsAt(w, s, p)
    /\ p = 1 \/ s[p - 1] \notin IdentChars
    /\ p + Len(w) > Len(s) \/ s[p + Len(w)] \notin IdentChars

\* C29: a query that starts with "select ", holds no ';' and none of
\* update, delete, insert, drop, create, alter as a whole token is not
\* refused by the validator, also when an identifier of it contains such a
\* word (created_at).
C29_SubstringNotRefused ==
  (/\ call.made
   /\ startsWith(toLowerCase(trim(call.query)), W_select_)
   /\ ~includes(call.query, <<";">>)
   /\ ~hasForbiddenToken(toLowerCase(trim(call.query)))) =>
    qres.error # "Invalid SQL query"

\* select created_at from t was refused before the store was read
C29_CreatedAtRefused ==
  /\ call.made
  /\ call.query = Q_select_created \o Q_from_t
  /\ dbFile.kind = "json"
  /\ ~qres.success
  /\ qres.error = "Invalid SQL query"
  /\ ~qres.fsAccess

(***************************************************************************)
(* Properties of the decoder of the responses (SpecAgent).                 *)
(***************************************************************************)

\* C28: when the text of a response holds a well-formed object followed by
\* more text (prose, or prose and a second object), the object is decoded
\* and used at the planning, the review and the synthesis call site, not
\* the fallback of the site.
C28_FirstObjectDecoded ==
  /\ (/\ planCall.made
      /\ planCall.sourcesOk
      /\ planCall.response.kind \in TrailedKinds
      /\ pc # "waiting") =>
       decision = decisionFromPlan(TrailedPlan)
  /\ \A k \in 1..Len(iterations) :
       answers[k].kind \in TrailedKinds =>
         /\ iterations[k].metadata.review = TrailedReview
         /\ iterations[k].confidence = 30
  /\ (/\ pc \in {"return", "done"}
      /\ result.source = "iterative"
      /\ answers # <<>>
      /\ answers[Len(answers)].site = "synthesis"
      /\ answers[Len(answers)].kind \in TrailedKinds) =>
       result.context = Defined(<<"synthesized answer">>)

\* the review text held an object, prose and a second object, and the
\* iteration carries the fallback review
C28_SecondObjectSpoilsFirst ==
  /\ Len(iterations) = 1
  /\ answers[1] = [site |-> "iteration", retrieval |-> "text",
                   kind |-> "objectThenObject"]
  /\ iterations[1].metadata.review = fallbackReview
  /\ iterations[1].confidence = 70

(***************************************************************************)
(* Properties of the single sql approach (SpecAgent).                      *)
(***************************************************************************)

\* the records the single sql approach queried, in order
recordsLog == SelectSeq(answers, LAMBDA a : a.site = "record")

\* C30: in the single sql mode the records are tried in order and the first
\* success is the context, no further record being queried; when no record
\* succeeds the chunks of the vector retrieval are the context, the source
\* is 'vector-fallback' and the mode is that of the decision.
C30_FirstSuccessOrVectorFallback ==
  (/\ pc \in {"return", "done"}
   /\ planCall.made
   /\ decision.mode = "sql"
   /\ result.source # "fallback") =>
    /\ Len(recordsLog) <= excelRecords
    /\ \A k \in 1..(Len(recordsLog) - 1) : recordsLog[k].retrieval = "empty"
    /\ IF recordsLog # <<>> /\ recordsLog[Len(recordsLog)].retrieval = "text"
       THEN /\ result.source = "excel-sql"
            /\ result.context = Defined(<<"sql rows">>)
            /\ result.mode = "sql"
       ELSE /\ Len(recordsLog) = excelRecords
            /\ result.source = "vector-fallback"
            /\ result.context \in {Defined(<<"chunks">>), Defined(<<>>)}
            /\ result.mode = "sql"

\* of two records the first succeeded and the second was not queried
C30_FirstRecordEnough ==
  /\ pc = "done"
  /\ decision.mode = "sql"
  /\ excelRecords >= 2
  /\ Len(recordsLog) = 1
  /\ result.source = "excel-sql"

(***************************************************************************)
(* Properties of the import of a workbook (SpecWorkbook).                  *)
(***************************************************************************)

\* the sheets of the workbook that have rows, in order
importedSheets == SelectSeq(workbook, LAMBDA sheet : sheet.rows # <<>>)

\* C21: after the import of a workbook no two entries of the table list
\* have the same name, also when two sheet names have the same normal
\* form, and the rows of every sheet imported are in the store, none
\* replaced by the rows of another sheet.
C21_TableNamesUnique ==
  dbFile.kind = "json" =>
    /\ \A j, k \in 1..Len(tables) : j # k => tables[j].table # tables[k].table
    /\ Len(tables) = Len(importedSheets)
    /\ \A k \in 1..Len(tables) :
         /\ tables[k].table \in DOMAIN dbFile.data
         /\ dbFile.data[tables[k].table] = importedSheets[k].rows

\* the sheets "A 1" and "a_1" are both listed as a_1 and the store holds
\* the rows of the second alone
C21_SecondSheetReplacesFirst ==
  /\ dbFile.kind = "json"
  /\ Len(workbook) = 2
  /\ workbook[1].name = <<"A", " ", "1">>
  /\ workbook[2].name = <<"a", "_", "1">>
  /\ Len(tables) = 2
  /\ tables[1].table = <<"a", "_", "1">>
  /\ tables[2].table = <<"a", "_", "1">>
  /\ DOMAIN dbFile.data = {<<"a", "_", "1">>}
  /\ dbFile.data[<<"a", "_", "1">>] = workbook[2].rows
  /\ workbook[1].rows # workbook[2].rows

\* C22: after the import every stored row of a table has the declared
\* columns of the table, and no others, as its keys: a declared column
\* named in a query reads its cell in every row.
C22_RowsHaveDeclaredColumns ==
  dbFile.kind = "json" =>
    \A k \in 1..Len(tables) :
      tables[k].table \in DOMAIN dbFile.data =>
        \A j \in 1..Len(dbFile.data[tables[k].table]) :
          /\ DOMAIN dbFile.data[tables[k].table][j] = Range(tables[k].columns)
          /\ \A column \in Range(tables[k].columns) :
               HasCell(dbFile.data[tables[k].table][j], column)

\* the one sheet has the header "A": column a is declared and the stored
\* row has the key "A" and no cell under a
C22_HeaderKeyKept ==
  /\ dbFile.kind = "json"
  /\ Len(workbook) = 1
  /\ Len(tables) = 1
  /\ tables[1].columns = <<C_a>>
  /\ tables[1].table \in DOMAIN dbFile.data
  /\ DOMAIN dbFile.data[tables[1].table][1] = {<<"A">>}
  /\ ~HasCell(dbFile.data[tables[1].table][1], C_a)
  /\ CellOrEmpty(dbFile.data[tables[1].table][1], C_a) = <<>>

====
